---- MODULE Spec2Model ----
(***************************************************************************)
(* Model of the PDF ingestion handler upload_pdf (src/main.py) together    *)
(* with the rasterizer (src/pdf2img.py) and the text recognizer            *)
(* (src/visionOcr.py).  One request is followed from its arrival to its    *)
(* response; every call to an external service (metadata table, object     *)
(* storage, OCR, embedding model) is one step whose outcome is chosen      *)
(* nondeterministically among the outcomes the handler distinguishes.      *)
(* File names, storage keys and local paths are sequences of one-character *)
(* strings so that the string operations of the code (lower, endswith,     *)
(* basename, splitext, split, int, the 03d format) are computed.           *)
(***************************************************************************)
EXTENDS Integers, Sequences, FiniteSets, TLC

(* ---------------------------------------------------------------- bounds *)

\* Largest page count of an uploaded PDF.
MaxPages == 2

\* Number of documents that earlier ingestions may have left in the stores.
MaxPriorDocs == 1

(* ------------------------------------------------------ program constants *)

supabase_free_tier_limit_mb == 50

max_retries == 3

BytesPerMb == 1024 * 1024

(* ------------------------------------------------- strings as sequences *)

Digits == <<"0", "1", "2", "3", "4", "5", "6", "7", "8", "9">>

DigitChar(d) == Digits[d + 1]

IsDigitChar(c) == \E d \in 0..9 : Digits[d + 1] = c

DigitValue(c) == CHOOSE d \in 0..9 : Digits[d + 1] = c

\* str(n) for n >= 0
RECURSIVE Decimal(_)
Decimal(n) == IF n < 10 THEN <<DigitChar(n)>>
              ELSE Decimal(n \div 10) \o <<DigitChar(n % 10)>>

\* f"{n:03d}": decimal, left-padded with zeros to at least three characters
Format03d(n) ==
    LET s == Decimal(n)
    IN  IF Len(s) >= 3 THEN s
        ELSE [i \in 1..(3 - Len(s)) |-> "0"] \o s

NoneValue == -1

\* int(s): the value of a non-empty string of digits, None (the except
\* branch of the caller) otherwise
RECURSIVE DigitsValue(_)
DigitsValue(s) == IF s = <<>> THEN 0
                  ELSE 10 * DigitsValue(SubSeq(s, 1, Len(s) - 1)) + DigitValue(s[Len(s)])

ParseInt(s) == IF s # <<>> /\ \A i \in 1..Len(s) : IsDigitChar(s[i])
               THEN DigitsValue(s)
               ELSE NoneValue

\* str.lower() on the letters that occur in the modelled file names
LowerChar(c) == CASE c = "P" -> "p"
                  [] c = "D" -> "d"
                  [] c = "F" -> "f"
                  [] c = "A" -> "a"
                  [] OTHER -> c

Lower(s) == [i \in 1..Len(s) |-> LowerChar(s[i])]

EndsWith(s, suffix) ==
    /\ Len(s) >= Len(suffix)
    /\ SubSeq(s, Len(s) - Len(suffix) + 1, Len(s)) = suffix

\* s.split(sep) for a one-character separator; the string is evaluated once
\* and then cut at its first separator
RECURSIVE Split(_, _)
Split(str, sep) ==
    LET Cut(s) ==
            IF \A i \in 1..Len(s) : s[i] # sep THEN <<s>>
            ELSE LET k == CHOOSE i \in 1..Len(s) :
                              s[i] = sep /\ \A j \in 1..(i - 1) : s[j] # sep
                 IN  <<SubSeq(s, 1, k - 1)>> \o Split(SubSeq(s, k + 1, Len(s)), sep)
    IN  CHOOSE parts \in { Cut(s) : s \in {str} } : TRUE

\* os.path.splitext(name)[0] for a name without directory part
SplitextStem(name) ==
    IF \A i \in 2..Len(name) : name[i] # "." THEN name
    ELSE LET k == CHOOSE i \in 2..Len(name) :
                      name[i] = "." /\ \A j \in (i + 1)..Len(name) : name[j] # "."
         IN  SubSeq(name, 1, k - 1)

PdfSuffix == <<".", "p", "d", "f">>

(* ------------------------------------------------------ names and paths *)

\* The working directory of the process and the per-document image directory.
Cwd == [root |-> "cwd", id |-> 0]

\* One image directory for all documents.
OutputDirShared(id) == [root |-> "images", id |-> 0]

\* output_dir = f"images/{pdf_id}"
OutputDir(id) == [root |-> "images", id |-> id]

LocalPath(dir, name) == [dir |-> dir, name |-> name]

\* os.path.basename of a local path
Basename(path) == path.name

\* temp_{uuid4}.pdf
TempFilenameOf(uuid) == LocalPath(Cwd, <<"t", "e", "m", "p", "_">> \o uuid \o PdfSuffix)

\* The uuid of the one request of Spec is the token "u".
TempFilename == TempFilenameOf(<<"u">>)

DownloadedPdfPath(id, fname) == LocalPath(Cwd, Decimal(id) \o <<"_">> \o fname)

\* Image files numbered from 0: page_{page_num:03d}.jpg.
PageImagePathFromZero(dir, page_num) ==
    LocalPath(dir, <<"p", "a", "g", "e", "_">> \o Format03d(page_num)
                   \o <<".", "j", "p", "g">>)

\* page_{page_num+1:03d}.jpg inside the output folder, page_num from 0
PageImagePath(dir, page_num) ==
    LocalPath(dir, <<"p", "a", "g", "e", "_">> \o Format03d(page_num + 1)
                   \o <<".", "j", "p", "g">>)

TxtName(img_path) ==
    SplitextStem(Basename(img_path)) \o <<"_", "t", "e", "x", "t", ".", "t", "x", "t">>

\* Storage key f"{pdf_id}/{name}"
StorageKey(id, name) == [pdf_id |-> id, name |-> name]

\* The page number taken from the wrong part of the split name.
PageNumberOfFirstPart(txt_name) ==
    LET First(parts) == IF Len(parts) >= 1 THEN ParseInt(parts[1]) ELSE NoneValue
    IN  CHOOSE n \in { First(parts) : parts \in {Split(txt_name, "_")} } : TRUE

\* page_number = int(txt_name.split('_')[1]), None when that fails; the name
\* is split once
PageNumberOf(txt_name) ==
    LET Second(parts) == IF Len(parts) >= 2 THEN ParseInt(parts[2]) ELSE NoneValue
    IN  CHOOSE n \in { Second(parts) : parts \in {Split(txt_name, "_")} } : TRUE

(* ----------------------------------------------------------------- state *)

VARIABLES
    \* external services
    pdfs,            \* rows of the "pdfs" table: [id, name, storage_path]
    nextId,          \* the id the table assigns to the next inserted row
    pdfBucket,       \* keys stored in the "pdfs" bucket
    imgBucket,       \* keys stored in the "pdfimg" bucket
    txtBucket,       \* [key, content] objects stored in the "pdftxt" bucket
    embeddings,      \* rows of the "embeddings" table, in insertion order
    \* local file system of the service
    files,           \* local files that exist
    dirs,            \* local directories that exist
    \* the request and the locals of upload_pdf
    pc,              \* position of the handler
    filename,        \* file.filename
    file_size,       \* size in bytes of the uploaded content
    numPages,        \* page count of the uploaded PDF
    pdf_id,
    image_paths,
    idx,             \* 1-based position of img_path in image_paths
    attempt,         \* loop variable of the current retry loop
    uploaded_images,
    uploaded_texts,
    text,
    page_number,
    response,
    \* observations of the run (written, never read, by the handler)
    called,          \* [op, page] for every external call made so far
    nAttempts,       \* upload calls made for the current page artifact
    curOk,           \* an upload call for the current artifact returned without error
    slept,           \* seconds slept since the last upload call of the artifact
    returnedOk,      \* storage keys whose upload call returned without error
    results,         \* [op, outcome] of every document-level call made so far
    \* the other entry points, each followed in a specification of its own
    ask,             \* an /ask/ request: the locals of ask_question and ask_gemini
    conv,            \* a call of convert_pdf_to_images: its arguments and locals
    \* two upload requests served at the same time, followed in a specification
    \* of their own
    runs             \* the locals of upload_pdf in each of the two requests

store == <<pdfs, nextId, pdfBucket, imgBucket, txtBucket, embeddings>>
fsys  == <<files, dirs>>
req   == <<filename, file_size, numPages>>
loop  == <<image_paths, idx, attempt, uploaded_images, uploaded_texts, text, page_number>>
obs   == <<called, nAttempts, curOk, slept, returnedOk, results>>
vars  == <<store, fsys, req, pc, pdf_id, loop, response, obs, ask, conv, runs>>

(* ------------------------------------------------------------ value sets *)

NoPath == [pdf_id |-> 0, name |-> <<>>]

NoResponse == [status |-> 0, error |-> "none", fields |-> {}]

NoText == [kind |-> "unset", page |-> 0]

\* No /ask/ request and no rasterizer call is in progress.
NoAsk == [pc |-> "idle"]

NoConv == [pc |-> "idle"]

\* The two requests whose interleaving is followed, and the locals of one
\* that has not been received.
RunIds == {1, 2}

NoFile == [dir |-> [root |-> "none", id |-> 0], name |-> <<>>]

NoDir == [root |-> "none", id |-> 0]

NoRun == [pc |-> "idle", filename |-> <<>>, n |-> 0, temp_filename |-> NoFile,
          pdf_id |-> 0, storage_path |-> NoPath, downloaded_pdf_path |-> NoFile,
          output_dir |-> NoDir, image_paths |-> <<>>, idx |-> 0]

NoRuns == [r \in RunIds |-> NoRun]

\* File names a client may send.
Filenames == { <<"a">> \o PdfSuffix,
               <<"A", ".", "P", "d", "F">>,
               <<"a", ".", "t", "x", "t">>,
               <<"p", "d", "f">>,
               PdfSuffix \o <<".", "d">> }

\* Sizes in bytes around the 50 MB limit: the largest accepted size, the
\* smallest rejected size, and one ten megabytes over.
FileSizes == { supabase_free_tier_limit_mb * BytesPerMb,
               supabase_free_tier_limit_mb * BytesPerMb + 1,
               (supabase_free_tier_limit_mb + 10) * BytesPerMb }

PdfUploadOutcomes == {"ok", "error", "api413", "api", "exc"}

UploadOutcomes == {"ok", "error", "exc"}

OcrOutcomes == {"text", "none", "fault"}

\* What an earlier, complete ingestion of a one-page document d left behind;
\* it carries a name the next upload may carry again (a re-ingestion).
PriorName == <<"a">> \o PdfSuffix

PriorRow(d) == [id |-> d, name |-> PriorName, storage_path |-> StorageKey(d, PriorName)]

PriorText(d) == [kind |-> "extracted", page |-> 1]

PriorEmbedding(d) == [pdf_id |-> d, page_number |-> 1, text |-> PriorText(d)]

\* The stores after k earlier, complete ingestions.
StoresInit(k) ==
    /\ pdfs = { PriorRow(d) : d \in 1..k }
    /\ nextId = k + 1
    /\ pdfBucket = { StorageKey(d, PriorName) : d \in 1..k }
    /\ imgBucket = { StorageKey(d, Basename(PageImagePath(OutputDir(d), 0))) : d \in 1..k }
    /\ txtBucket = { [key |-> StorageKey(d, TxtName(PageImagePath(OutputDir(d), 0))),
                      content |-> PriorText(d)] : d \in 1..k }
    /\ embeddings = [d \in 1..k |-> PriorEmbedding(d)]

\* No upload request has been received.
UploadIdle ==
    /\ pc = "idle"
    /\ filename = <<>>
    /\ file_size = 0
    /\ numPages = 0
    /\ pdf_id = 0
    /\ image_paths = <<>>
    /\ idx = 0
    /\ attempt = 0
    /\ uploaded_images = <<>>
    /\ uploaded_texts = <<>>
    /\ text = NoText
    /\ page_number = NoneValue
    /\ response = NoResponse
    /\ called = {}
    /\ nAttempts = 0
    /\ curOk = FALSE
    /\ slept = 0
    /\ returnedOk = {}
    /\ results = {}

Init ==
    \E k \in 0..MaxPriorDocs :
        /\ StoresInit(k)
        /\ files = {}
        /\ dirs = {}
        /\ UploadIdle
        /\ ask = NoAsk
        /\ conv = NoConv
        /\ runs = NoRuns

(* --------------------------------------------------------------- helpers *)

Call(op, page) == [op |-> op, page |-> page]

Result(op, outcome) == [op |-> op, outcome |-> outcome]

OkOrExc(ok) == IF ok THEN "ok" ELSE "exc"

HttpError(status, error, fields) == [status |-> status, error |-> error, fields |-> fields]

\* An exception that leaves the handler: the framework answers 500.
Unhandled == HttpError(500, "Internal Server Error", {})

TooLargeFields == {"error", "file_size_mb", "supabase_free_tier_limit", "message", "solution"}

\* The extension check without lower(): a case-sensitive comparison.
AcceptsFilenameCaseSensitive(fname) == EndsWith(fname, PdfSuffix)

\* file.filename.lower().endswith(".pdf")
AcceptsFilename(fname) == EndsWith(Lower(fname), PdfSuffix)

\* The size check with whole megabytes (integer division) for file_size_mb.
ExceedsLimitWholeMb(size) == size \div BytesPerMb > supabase_free_tier_limit_mb

\* file_size_mb > supabase_free_tier_limit_mb, file_size_mb = file_size / (1024 * 1024)
ExceedsLimit(size) == size > supabase_free_tier_limit_mb * BytesPerMb

(* ------------------------------------------- upload_pdf: document stages *)

\* A client posts a file to /upload_pdf/.
Receive ==
    /\ pc = "idle"
    /\ \E fname \in Filenames, size \in FileSizes, n \in 1..MaxPages :
        /\ filename' = fname
        /\ file_size' = size
        /\ numPages' = n
    /\ pc' = "check_extension"
    /\ UNCHANGED <<store, fsys, pdf_id, loop, response, obs>>
    /\ UNCHANGED <<ask, conv, runs>>

\* The extension check that opens the handler.
CheckExtension ==
    /\ pc = "check_extension"
    /\ IF AcceptsFilename(filename)
       THEN /\ pc' = "save_temp"
            /\ UNCHANGED response
       ELSE /\ pc' = "done"
            /\ response' = HttpError(400, "Only PDF files are allowed.", {})
    /\ UNCHANGED <<store, fsys, req, pdf_id, loop, obs>>
    /\ UNCHANGED <<ask, conv, runs>>

\* The uploaded content is written to the temporary file.
SaveTemp ==
    /\ pc = "save_temp"
    /\ files' = files \cup {TempFilename}
    /\ pc' = "insert_metadata"
    /\ UNCHANGED <<store, dirs, req, pdf_id, loop, response, obs>>
    /\ UNCHANGED <<ask, conv, runs>>

\* Insert of the metadata row (without storage_path); the table assigns the id.
InsertMetadata ==
    /\ pc = "insert_metadata"
    /\ called' = called \cup {Call("pdfs_insert", 0)}
    /\ \E ok \in BOOLEAN :
        IF ok
        THEN /\ pdfs' = pdfs \cup {[id |-> nextId, name |-> filename, storage_path |-> NoPath]}
             /\ pdf_id' = nextId
             /\ nextId' = nextId + 1
             /\ pc' = "check_size"
             /\ results' = results \cup {Result("pdfs_insert", "ok")}
             /\ UNCHANGED <<files, response>>
        ELSE /\ files' = files \ {TempFilename}
             /\ response' = HttpError(500, "Database error", {})
             /\ pc' = "done"
             /\ results' = results \cup {Result("pdfs_insert", "exc")}
             /\ UNCHANGED <<pdfs, pdf_id, nextId>>
    /\ UNCHANGED <<pdfBucket, imgBucket, txtBucket, embeddings, dirs, req, loop,
                   nAttempts, curOk, slept, returnedOk>>
    /\ UNCHANGED <<ask, conv, runs>>

\* The size check against the 50 MB limit.
CheckSize ==
    /\ pc = "check_size"
    /\ IF ExceedsLimit(file_size)
       THEN /\ files' = files \ {TempFilename}
            /\ response' = HttpError(413, "File too large for Supabase free tier", TooLargeFields)
            /\ pc' = "done"
       ELSE /\ pc' = "upload_pdf"
            /\ UNCHANGED <<files, response>>
    /\ UNCHANGED <<store, dirs, req, pdf_id, loop, obs>>
    /\ UNCHANGED <<ask, conv, runs>>

\* What the handlers around the storage upload of the PDF answer; tempExists
\* tells whether the temporary file still exists after the first os.remove.
\* The error result raises the 500 'Storage error' inside the try block after
\* removing the temporary file; that exception is caught by the last handler,
\* whose os.remove of the same file raises when the file is gone.
PdfUploadFailureResponse(outcome, tempExists) ==
    CASE outcome = "error"  -> IF tempExists THEN HttpError(500, "PDF upload failed", {})
                               ELSE Unhandled
      [] outcome = "api413" -> HttpError(413, "File too large for Supabase storage", TooLargeFields)
      [] outcome = "api"    -> HttpError(500, "Storage error", {})
      [] outcome = "exc"    -> HttpError(500, "PDF upload failed", {})

\* The upload of the original PDF going on when the result carries an error.
UploadPdfErrorUnchecked ==
    /\ pc = "upload_pdf"
    /\ called' = called \cup {Call("pdf_upload", 0)}
    /\ \E outcome \in PdfUploadOutcomes :
        /\ results' = results \cup {Result("pdf_upload", outcome)}
        /\ IF outcome \in {"ok", "error"}
           THEN /\ pdfBucket' = IF outcome = "ok"
                                 THEN pdfBucket \cup {StorageKey(pdf_id, filename)}
                                 ELSE pdfBucket
                /\ pc' = "update_storage_path"
                /\ UNCHANGED <<files, response, pdfs>>
           ELSE /\ files' = files \ {TempFilename}
                /\ response' = PdfUploadFailureResponse(outcome, TempFilename \in files')
                /\ pc' = "done"
                /\ UNCHANGED <<pdfBucket, pdfs>>
    /\ UNCHANGED <<nextId, imgBucket, txtBucket, embeddings, dirs, req, pdf_id, loop,
                   nAttempts, curOk, slept, returnedOk>>
    /\ UNCHANGED <<ask, conv, runs>>

\* Upload of the original PDF to the "pdfs" bucket.
UploadPdf ==
    /\ pc = "upload_pdf"
    /\ called' = called \cup {Call("pdf_upload", 0)}
    /\ \E outcome \in PdfUploadOutcomes :
        /\ results' = results \cup {Result("pdf_upload", outcome)}
        /\ IF outcome = "ok"
           THEN /\ pdfBucket' = pdfBucket \cup {StorageKey(pdf_id, filename)}
                /\ pc' = "update_storage_path"
                /\ UNCHANGED <<files, response, pdfs>>
           ELSE /\ files' = files \ {TempFilename}
                /\ response' = PdfUploadFailureResponse(outcome, TempFilename \in files')
                /\ pc' = "done"
                /\ UNCHANGED <<pdfBucket, pdfs>>
    /\ UNCHANGED <<nextId, imgBucket, txtBucket, embeddings, dirs, req, pdf_id, loop,
                   nAttempts, curOk, slept, returnedOk>>
    /\ UNCHANGED <<ask, conv, runs>>

\* Update of the row with the storage path, then removal of the temporary file.
UpdateStoragePath ==
    /\ pc = "update_storage_path"
    /\ called' = called \cup {Call("pdfs_update", 0)}
    /\ \E ok \in BOOLEAN :
        /\ results' = results \cup {Result("pdfs_update", OkOrExc(ok))}
        /\ IF ok
           THEN /\ pdfs' = { IF r.id = pdf_id
                             THEN [r EXCEPT !.storage_path = StorageKey(pdf_id, filename)]
                             ELSE r : r \in pdfs }
                /\ pc' = "download"
                /\ UNCHANGED response
           ELSE /\ response' = HttpError(500, "Failed to update storage path", {})
                /\ pc' = "done"
                /\ UNCHANGED pdfs
    /\ files' = files \ {TempFilename}
    /\ UNCHANGED <<nextId, pdfBucket, imgBucket, txtBucket, embeddings, dirs, req, pdf_id,
                   loop, nAttempts, curOk, slept, returnedOk>>
    /\ UNCHANGED <<ask, conv, runs>>

\* A handler that uploads the PDF again whenever the read-back fails.
AfterDownloadUploadAgain(ok) == IF ok THEN "rasterize" ELSE "upload_pdf"

\* A handler that goes on to rasterize whatever the read-back returned.
AfterDownloadUnchecked(ok) == "rasterize"

\* Where the handler goes after the read-back download.
AfterDownload(ok) == IF ok THEN "rasterize" ELSE "compensate"

\* Read-back of the stored PDF into the local downloaded file.
DownloadPdf ==
    /\ pc = "download"
    /\ called' = called \cup {Call("pdf_download", 0)}
    /\ \E ok \in BOOLEAN :
        /\ pc' = AfterDownload(ok)
        /\ files' = IF ok THEN files \cup {DownloadedPdfPath(pdf_id, filename)} ELSE files
        /\ results' = results \cup {Result("pdf_download", OkOrExc(ok))}
    /\ UNCHANGED <<store, dirs, req, pdf_id, loop, response,
                   nAttempts, curOk, slept, returnedOk>>
    /\ UNCHANGED <<ask, conv, runs>>

\* The read-back failed: delete of the metadata row (its own failure is only
\* logged), then the 500 'PDF upload verification failed'.
CompensateDelete ==
    /\ pc = "compensate"
    /\ called' = called \cup {Call("pdfs_delete", 0)}
    /\ \E ok \in BOOLEAN :
        /\ pdfs' = IF ok THEN { r \in pdfs : r.id # pdf_id } ELSE pdfs
        /\ results' = results \cup {Result("pdfs_delete", OkOrExc(ok))}
    /\ response' = HttpError(500, "PDF upload verification failed", {"error", "message", "file"})
    /\ pc' = "done"
    /\ UNCHANGED <<nextId, pdfBucket, imgBucket, txtBucket, embeddings, fsys, req, pdf_id,
                   loop, nAttempts, curOk, slept, returnedOk>>
    /\ UNCHANGED <<ask, conv, runs>>

(* ------------------------------------------------------------ rasterizer *)

\* convert_pdf_to_images: the image paths it returns when rendering page
\* faultAt fails (0: the document cannot be opened; n + 1: no fault).
ConvertResult(dir, n, faultAt) ==
    IF faultAt <= n THEN <<>>
    ELSE [i \in 1..n |-> PageImagePath(dir, i - 1)]

\* The image files convert_pdf_to_images has written when it returns.
ConvertWritten(dir, n, faultAt) ==
    { PageImagePath(dir, i - 1) : i \in 1..(IF faultAt <= n THEN faultAt - 1 ELSE n) }

\* Where the handler goes with the list the rasterizer returned: both page
\* loops run over image_paths, and run zero times over an empty list.
AfterRasterize(paths) == IF paths = <<>> THEN "cleanup" ELSE "img_attempt"

\* os.makedirs(output_dir) and convert_pdf_to_images(downloaded_pdf_path, output_dir).
Rasterize ==
    /\ pc = "rasterize"
    /\ called' = called \cup {Call("rasterize", 0)}
    /\ dirs' = dirs \cup {OutputDir(pdf_id)}
    /\ IF DownloadedPdfPath(pdf_id, filename) \notin files
       THEN \* FileNotFoundError leaves the handler
            /\ response' = Unhandled
            /\ pc' = "done"
            /\ results' = results \cup {Result("rasterize", "not_found")}
            /\ UNCHANGED <<files, image_paths, idx>>
       ELSE \E faultAt \in 0..(numPages + 1) :
            /\ image_paths' = ConvertResult(OutputDir(pdf_id), numPages, faultAt)
            /\ files' = files \cup ConvertWritten(OutputDir(pdf_id), numPages, faultAt)
            /\ pc' = AfterRasterize(image_paths')
            /\ idx' = IF image_paths' = <<>> THEN 0 ELSE 1
            /\ results' = results \cup {Result("rasterize",
                                                 IF faultAt <= numPages THEN "fault" ELSE "ok")}
            /\ UNCHANGED response
    /\ attempt' = 0
    /\ nAttempts' = 0
    /\ curOk' = FALSE
    /\ slept' = 0
    /\ UNCHANGED <<store, req, pdf_id, uploaded_images, uploaded_texts, text, page_number,
                   returnedOk>>
    /\ UNCHANGED <<ask, conv, runs>>

(* ------------------------------------------------------ the retry loops *)

\* A retry loop without the break after a successful upload.
RetryAgainWithoutBreak(outcome, att) == att < max_retries - 1

\* One pass of the body of `for attempt in range(max_retries)` around an
\* upload: whether another pass follows.  An answer without error breaks;
\* an error result continues while attempt < max_retries - 1; an exception
\* is caught and the loop goes on to the next value of attempt.
RetryAgain(outcome, att) == outcome # "ok" /\ att < max_retries - 1

\* Seconds slept between this pass and the next: time.sleep(2 ** attempt) in
\* the except branch only; the error-result branch continues at once.
RECURSIVE Pow2(_)
Pow2(n) == IF n = 0 THEN 1 ELSE 2 * Pow2(n - 1)

BackoffSleep(outcome, att) ==
    IF outcome = "exc" /\ att < max_retries - 1 THEN Pow2(att) ELSE 0

\* A handler that lists the artifact after every upload call but an exception.
AppendUnlessRaised(list, path, outcome) ==
    IF outcome # "exc" THEN Append(list, path) ELSE list

\* The list of uploaded artifacts after one upload call.
AppendIfUploaded(list, path, outcome) ==
    IF outcome = "ok" THEN Append(list, path) ELSE list

ImgStoragePath == StorageKey(pdf_id, Basename(image_paths[idx]))

TxtStoragePath == StorageKey(pdf_id, TxtName(image_paths[idx]))

\* One attempt to upload the image of page idx to the "pdfimg" bucket.
UploadImage ==
    /\ pc = "img_attempt"
    /\ called' = called \cup {Call("img_upload", idx)}
    /\ nAttempts' = nAttempts + 1
    /\ \E outcome \in UploadOutcomes :
        /\ imgBucket' = IF outcome = "ok" THEN imgBucket \cup {ImgStoragePath} ELSE imgBucket
        /\ curOk' = (curOk \/ outcome = "ok")
        /\ returnedOk' = IF outcome = "ok" THEN returnedOk \cup {ImgStoragePath} ELSE returnedOk
        /\ uploaded_images' = AppendIfUploaded(uploaded_images, ImgStoragePath, outcome)
        /\ slept' = BackoffSleep(outcome, attempt)
        /\ IF RetryAgain(outcome, attempt)
           THEN /\ attempt' = attempt + 1
                /\ pc' = "img_attempt"
           ELSE /\ pc' = "img_next"
                /\ UNCHANGED attempt
    /\ UNCHANGED <<pdfs, nextId, pdfBucket, txtBucket, embeddings, fsys, req, pdf_id,
                   image_paths, idx, uploaded_texts, text, page_number, response,
                   results>>
    /\ UNCHANGED <<ask, conv, runs>>

\* The image loop takes the next page, or ends and the text loop starts.
NextImage ==
    /\ pc = "img_next"
    /\ IF idx < Len(image_paths)
       THEN /\ idx' = idx + 1
            /\ pc' = "img_attempt"
       ELSE /\ idx' = 1
            /\ pc' = "ocr"
    /\ attempt' = 0
    /\ nAttempts' = 0
    /\ curOk' = FALSE
    /\ slept' = 0
    /\ UNCHANGED <<store, fsys, req, pdf_id, image_paths, uploaded_images, uploaded_texts,
                   text, page_number, response, called, returnedOk, results>>
    /\ UNCHANGED <<ask, conv, runs>>

(* ------------------------------------------------------- text recognizer *)

\* An exception leaving extract_text_from_image, were there one.
Raised == [kind |-> "raised", page |-> 0]

\* extract_text_from_image without its except branch.
ExtractedTextUncaught(outcome, page) ==
    CASE outcome = "text"  -> [kind |-> "extracted", page |-> page]
      [] outcome = "none"  -> [kind |-> "No text found in image", page |-> 0]
      [] outcome = "fault" -> Raised

\* ImageTextExtractor.extract_text_from_image: always a string.  The first
\* annotation's description when there is one, the sentinel when there is
\* none, the error description when reading the image or the call fails.
ExtractedText(outcome, page) ==
    CASE outcome = "text"  -> [kind |-> "extracted", page |-> page]
      [] outcome = "none"  -> [kind |-> "No text found in image", page |-> 0]
      [] outcome = "fault" -> [kind |-> "Error processing image", page |-> 0]

\* Text of page idx is recognized and written to its local text file.  The
\* call is outside every try block of upload_pdf: an exception from it would
\* leave the handler.
ExtractText ==
    /\ pc = "ocr"
    /\ called' = called \cup {Call("ocr", idx)}
    /\ \E outcome \in OcrOutcomes :
        text' = ExtractedText(outcome, idx)
    /\ IF text' = Raised
       THEN /\ pc' = "done"
            /\ response' = Unhandled
            /\ UNCHANGED files
       ELSE /\ files' = files \cup {LocalPath(OutputDir(pdf_id), TxtName(image_paths[idx]))}
            /\ pc' = "txt_attempt"
            /\ UNCHANGED response
    /\ attempt' = 0
    /\ nAttempts' = 0
    /\ curOk' = FALSE
    /\ slept' = 0
    /\ UNCHANGED <<store, dirs, req, pdf_id, image_paths, idx, uploaded_images,
                   uploaded_texts, page_number, returnedOk, results>>
    /\ UNCHANGED <<ask, conv, runs>>

\* One attempt to upload the text file of page idx to the "pdftxt" bucket.
UploadText ==
    /\ pc = "txt_attempt"
    /\ called' = called \cup {Call("txt_upload", idx)}
    /\ nAttempts' = nAttempts + 1
    /\ \E outcome \in UploadOutcomes :
        /\ txtBucket' = IF outcome = "ok"
                        THEN txtBucket \cup {[key |-> TxtStoragePath, content |-> text]}
                        ELSE txtBucket
        /\ curOk' = (curOk \/ outcome = "ok")
        /\ returnedOk' = IF outcome = "ok" THEN returnedOk \cup {TxtStoragePath} ELSE returnedOk
        /\ uploaded_texts' = AppendIfUploaded(uploaded_texts, TxtStoragePath, outcome)
        /\ slept' = BackoffSleep(outcome, attempt)
        /\ IF RetryAgain(outcome, attempt)
           THEN /\ attempt' = attempt + 1
                /\ pc' = "txt_attempt"
           ELSE /\ pc' = "embed"
                /\ UNCHANGED attempt
    /\ UNCHANGED <<pdfs, nextId, pdfBucket, imgBucket, embeddings, fsys, req, pdf_id,
                   image_paths, idx, uploaded_images, text, page_number, response,
                   results>>
    /\ UNCHANGED <<ask, conv, runs>>

(* -------------------------------------------------- embedding and insert *)

\* page_number is parsed from the text file name, then model.encode(text);
\* the call is outside every try block, so its exception leaves the handler.
EmbedText ==
    /\ pc = "embed"
    /\ called' = called \cup {Call("encode", idx)}
    /\ page_number' = PageNumberOf(TxtName(image_paths[idx]))
    /\ \E ok \in BOOLEAN :
        IF ok
        THEN /\ pc' = "insert_embedding"
             /\ UNCHANGED response
        ELSE /\ pc' = "done"
             /\ response' = Unhandled
    /\ UNCHANGED <<store, fsys, req, pdf_id, image_paths, idx, attempt, uploaded_images,
                   uploaded_texts, text, nAttempts, curOk, slept, returnedOk, results>>
    /\ UNCHANGED <<ask, conv, runs>>

\* Where the text loop goes after the insert of a page's embedding row,
\* whether the insert succeeded or raised (the exception is logged).
AfterInsert(ok, i, n) == IF i < n THEN "ocr" ELSE "cleanup"

\* Insert of the embedding row of page idx.
InsertEmbedding ==
    /\ pc = "insert_embedding"
    /\ called' = called \cup {Call("embeddings_insert", idx)}
    /\ \E ok \in BOOLEAN :
        /\ embeddings' = IF ok
                         THEN Append(embeddings, [pdf_id |-> pdf_id,
                                                  page_number |-> page_number,
                                                  text |-> text])
                         ELSE embeddings
        /\ pc' = AfterInsert(ok, idx, Len(image_paths))
    /\ idx' = IF idx < Len(image_paths) THEN idx + 1 ELSE idx
    /\ UNCHANGED <<pdfs, nextId, pdfBucket, imgBucket, txtBucket, fsys, req, pdf_id,
                   image_paths, attempt, uploaded_images, uploaded_texts, text, page_number,
                   response, nAttempts, curOk, slept, returnedOk, results>>
    /\ UNCHANGED <<ask, conv, runs>>

(* --------------------------------------------------- cleanup and response *)

SuccessFields == {"message", "pdf_id", "pdf_name", "upload_date", "storage_path",
                  "uploaded_images", "uploaded_texts"}

\* shutil.rmtree(output_dir), os.remove(downloaded_pdf_path), the 200 response.
Cleanup ==
    /\ pc = "cleanup"
    /\ IF OutputDir(pdf_id) \in dirs /\ DownloadedPdfPath(pdf_id, filename) \in files
       THEN /\ files' = { f \in files : f.dir # OutputDir(pdf_id) }
                            \ {DownloadedPdfPath(pdf_id, filename)}
            /\ dirs' = dirs \ {OutputDir(pdf_id)}
            /\ response' = [status |-> 200,
                            error |-> "none",
                            fields |-> SuccessFields]
       ELSE \* rmtree or os.remove raises on a missing path
            /\ response' = Unhandled
            /\ UNCHANGED <<files, dirs>>
    /\ pc' = "done"
    /\ UNCHANGED <<store, req, pdf_id, loop, obs>>
    /\ UNCHANGED <<ask, conv, runs>>

(* ------------------------------------------------------------ the system *)

Next ==
    \/ Receive
    \/ CheckExtension
    \/ SaveTemp
    \/ InsertMetadata
    \/ CheckSize
    \/ UploadPdf
    \/ UpdateStoragePath
    \/ DownloadPdf
    \/ CompensateDelete
    \/ Rasterize
    \/ UploadImage
    \/ NextImage
    \/ ExtractText
    \/ UploadText
    \/ EmbedText
    \/ InsertEmbedding
    \/ Cleanup

Spec == Init /\ [][Next]_vars

(* ------------------------------------------- convert_pdf_to_images alone *)

\* Document ids a caller may pass the rasterizer a file and a folder of.
ConvDocs == 1..(MaxPriorDocs + 1)

\* The except branch of convert_pdf_to_images returning what was rendered.
ConvExceptPartial(paths) == paths

\* The except branch of convert_pdf_to_images: print, return [].
ConvExcept(paths) == <<>>

\* A call convert_pdf_to_images(pdf_path, output_folder) of a PDF of n pages,
\* whose file exists or not; output_folder is given, as upload_pdf gives it.
ConvCall(path, folder, n) ==
    [pc |-> "check_path", pdf_path |-> path, output_folder |-> folder, n |-> n,
     page_num |-> 0, image_paths |-> <<>>, ret |-> <<>>, raised |-> "",
     faultAt |-> n + 1]

InitConvert ==
    /\ StoresInit(0)
    /\ UploadIdle
    /\ ask = NoAsk
    /\ runs = NoRuns
    /\ dirs = {}
    /\ \E d \in ConvDocs, fname \in { f \in Filenames : AcceptsFilename(f) },
          n \in 0..MaxPages, exists \in BOOLEAN :
        /\ files = IF exists THEN {DownloadedPdfPath(d, fname)} ELSE {}
        /\ conv = ConvCall(DownloadedPdfPath(d, fname), OutputDir(d), n)

\* if not os.path.exists(pdf_path): raise FileNotFoundError; os.makedirs
ConvCheckPath ==
    /\ conv.pc = "check_path"
    /\ IF conv.pdf_path \notin files
       THEN /\ conv' = [conv EXCEPT !.pc = "raised", !.raised = "FileNotFoundError"]
            /\ UNCHANGED dirs
       ELSE /\ conv' = [conv EXCEPT !.pc = "open"]
            /\ dirs' = dirs \cup {conv.output_folder}
    /\ UNCHANGED <<store, files, req, pc, pdf_id, loop, response, obs, ask, runs>>

\* fitz.open(pdf_path); image_paths = []
ConvOpen ==
    /\ conv.pc = "open"
    /\ \E ok \in BOOLEAN :
        conv' = IF ok
                THEN [conv EXCEPT !.pc = "page", !.page_num = 0, !.image_paths = <<>>]
                ELSE [conv EXCEPT !.pc = "returned", !.faultAt = 0,
                                  !.ret = ConvExcept(conv.image_paths)]
    /\ UNCHANGED <<store, fsys, req, pc, pdf_id, loop, response, obs, ask, runs>>

\* One pass of `for page_num in range(len(pdf_document))`: the page is
\* rendered and saved and its path appended, or an exception ends the loop.
ConvPage ==
    /\ conv.pc = "page"
    /\ conv.page_num < conv.n
    /\ \E ok \in BOOLEAN :
        IF ok
        THEN /\ files' = files \cup {PageImagePath(conv.output_folder, conv.page_num)}
             /\ conv' = [conv EXCEPT
                            !.image_paths = Append(@, PageImagePath(conv.output_folder,
                                                                    conv.page_num)),
                            !.page_num = @ + 1]
        ELSE /\ conv' = [conv EXCEPT !.pc = "returned", !.faultAt = conv.page_num + 1,
                                     !.ret = ConvExcept(conv.image_paths)]
             /\ UNCHANGED files
    /\ UNCHANGED <<store, dirs, req, pc, pdf_id, loop, response, obs, ask, runs>>

\* The loop is over: pdf_document.close(); return image_paths
ConvReturn ==
    /\ conv.pc = "page"
    /\ conv.page_num = conv.n
    /\ conv' = [conv EXCEPT !.pc = "returned", !.ret = conv.image_paths]
    /\ UNCHANGED <<store, fsys, req, pc, pdf_id, loop, response, obs, ask, runs>>

NextConvert ==
    \/ ConvCheckPath
    \/ ConvOpen
    \/ ConvPage
    \/ ConvReturn

SpecConvert == InitConvert /\ [][NextConvert]_vars

(* ---------------------------------------------------- the /ask/ handler *)

\* Documents ingested before the question is asked.
AskDocs == 1..(MaxPriorDocs + 1)

\* match_count values a client may send.
MatchCounts == 1..(MaxPages + 1)

DefaultModel == "models/gemini-2.5-flash"

FallbackModel == "models/gemini-2.5-flash-lite"

GeminiModels == {DefaultModel, FallbackModel}

\* Similarity of a stored text to the question, as the embedder and the
\* metric of the store decide it.
SimValues == {1, 2, 3}

\* requests.post: a response, a connection failure, a response with an error
\* status (raise_for_status), or no response within timeout=60.
SearchOutcomes == {"ok", "connection", "status", "timeout"}

\* generate_content and response.text: a text, ResourceExhausted, or any
\* other exception.
GeminiOutcomes == {"ok", "quota", "error"}

\* The rows a complete ingestion of document d with n pages inserted.
IngestedRows(d, n) ==
    [p \in 1..n |-> [pdf_id |-> d, page_number |-> p, text |-> ExtractedText("text", p)]]

RECURSIVE TableOf(_, _)
TableOf(np, k) == IF k = 0 THEN <<>> ELSE TableOf(np, k - 1) \o IngestedRows(k, np[k])

\* One piece of the string ask_gemini returns.
Tok(kind, detail) == [kind |-> kind, detail |-> detail]

NoAnswer == <<>>

\* An exception leaving ask_gemini, were there one.
Propagated == <<Tok("raised", "")>>

FallbackNotice == Tok("\n\n(Note: Fallback to Flash-Lite due to quota limits.)", "")

RateLimitApology ==
    Tok("Sorry, the AI service is currently rate-limited. Please try again later.", "")

\* ask_gemini falling back after any failure of the requested model.
NeedsFallbackOnAnyFailure(outcome, gemini_model) ==
    outcome # "ok" /\ gemini_model # FallbackModel

\* except ResourceExhausted: if gemini_model != "models/gemini-2.5-flash-lite"
NeedsFallback(outcome, gemini_model) ==
    outcome = "quota" /\ gemini_model # FallbackModel

\* What ask_gemini returns after the call of the requested model, when it
\* does not go on to the fallback model.
PrimaryAnswer(outcome, gemini_model) ==
    CASE outcome = "ok"    -> <<Tok("text", gemini_model)>>
      [] outcome = "quota" -> <<RateLimitApology, Tok("(Flash-Lite quota exceeded.)", "")>>
      [] outcome = "error" -> <<Tok("Sorry, an error occurred with the AI service: ",
                                    outcome)>>

\* The fallback call without its except clause.
FallbackAnswerUncaught(outcome) ==
    IF outcome = "ok" THEN <<Tok("text", FallbackModel), FallbackNotice>>
    ELSE Propagated

\* What ask_gemini returns after the call of the fallback model.
FallbackAnswer(outcome) ==
    IF outcome = "ok" THEN <<Tok("text", FallbackModel), FallbackNotice>>
    ELSE <<RateLimitApology, Tok("(Both Flash and Flash-Lite quota exceeded.)", "")>>

\* The similarity search of the store: the rows of document d only, by
\* descending similarity, at most k of them.  Rows of equal similarity come
\* in any order.
MatchEmbeddings(table, simOf, d, k) ==
    LET cand == { i \in 1..Len(table) : table[i].pdf_id = d }
        m == IF k < Cardinality(cand) THEN k ELSE Cardinality(cand)
        sim(i) == simOf[table[i].text.page]
        picks == { f \in [1..m -> cand] :
                     /\ \A i, j \in 1..m : i < j => f[i] # f[j] /\ sim(f[i]) >= sim(f[j])
                     /\ \A c \in cand :
                            (\A i \in 1..m : f[i] # c) => \A i \in 1..m : sim(f[i]) >= sim(c) }
    IN  { [i \in 1..m |-> [text |-> table[f[i]].text,
                           page_number |-> table[f[i]].page_number,
                           pdf_id |-> table[f[i]].pdf_id,
                           similarity |-> sim(f[i])]] : f \in picks }

\* The matches in the opposite order of the search results.
AnswersReversed(rows) ==
    [i \in 1..Len(rows) |->
        [answer |-> rows[Len(rows) + 1 - i].text,
         page_number |-> rows[Len(rows) + 1 - i].page_number,
         pdf_id |-> rows[Len(rows) + 1 - i].pdf_id,
         similarity |-> rows[Len(rows) + 1 - i].similarity]]

\* answers: one entry per result, in the order of the results.
AnswersOf(rows) ==
    [i \in 1..Len(rows) |->
        [answer |-> rows[i].text, page_number |-> rows[i].page_number,
         pdf_id |-> rows[i].pdf_id, similarity |-> rows[i].similarity]]

\* A context made of the best match alone.
JoinFirstOnly(texts) == IF texts = <<>> THEN <<>> ELSE <<texts[1]>>

\* "\n\n".join(texts)
Join(texts) ==
    [i \in 1..(IF texts = <<>> THEN 0 ELSE 2 * Len(texts) - 1) |->
        IF i % 2 = 1 THEN texts[(i + 1) \div 2] ELSE [kind |-> "\n\n", page |-> 0]]

\* A handler that goes on with no results when the search failed.
AfterSearchSwallowed(outcome) == "build"

\* requests.post and raise_for_status are outside any try block.
AfterSearch(outcome) == IF outcome = "ok" THEN "build" ELSE "done"

\* The document whose ingestion runs while the question is asked: its row
\* and its PDF are stored, its pages are being processed.
RunningDoc == MaxPriorDocs + 2

InitAsk ==
    /\ \E np \in [AskDocs -> {1, MaxPages}] :
        /\ imgBucket = UNION { { StorageKey(d, Basename(PageImagePath(OutputDir(d), q - 1))) :
                                    q \in 1..np[d] } : d \in AskDocs }
        /\ txtBucket = UNION { { [key |-> StorageKey(d, TxtName(PageImagePath(OutputDir(d),
                                                                             q - 1))),
                                  content |-> ExtractedText("text", q)] :
                                    q \in 1..np[d] } : d \in AskDocs }
        /\ embeddings = TableOf(np, MaxPriorDocs + 1)
    /\ pdfs = { PriorRow(d) : d \in AskDocs \cup {RunningDoc} }
    /\ pdfBucket = { StorageKey(d, PriorName) : d \in AskDocs \cup {RunningDoc} }
    /\ nextId = RunningDoc + 1
    /\ files = {}
    /\ dirs = {}
    /\ UploadIdle
    /\ ask = NoAsk
    /\ conv = NoConv
    /\ runs = NoRuns

\* POST /ask/ with a document id, a match count and a model name.
AskReceive ==
    /\ ask.pc = "idle"
    /\ \E d \in 1..nextId, k \in MatchCounts, m \in GeminiModels :
        ask' = [pc |-> "encode", pdf_id |-> d, match_count |-> k, gemini_model |-> m,
                results |-> <<>>, answers |-> <<>>, context |-> <<>>,
                search |-> "none", calls |-> <<>>, stages |-> <<>>, primary |-> "none",
                fallback |-> "none", rag_answer |-> NoAnswer, response |-> NoResponse]
    /\ UNCHANGED <<store, fsys, req, pc, pdf_id, loop, response, obs, conv, runs>>

\* question_embedding = model.encode(question).tolist(), outside any try.
AskEncode ==
    /\ ask.pc = "encode"
    /\ \E ok \in BOOLEAN :
        ask' = IF ok THEN [ask EXCEPT !.pc = "search", !.stages = Append(@, "embed")]
               ELSE [ask EXCEPT !.pc = "done", !.stages = Append(@, "embed"),
                                !.response = Unhandled]
    /\ UNCHANGED <<store, fsys, req, pc, pdf_id, loop, response, obs, conv, runs>>

\* requests.post(rpc/match_embeddings, timeout=60); raise_for_status();
\* results = resp.json()
AskSearch ==
    /\ ask.pc = "search"
    /\ \E outcome \in SearchOutcomes :
        IF outcome = "ok"
        THEN \E simOf \in [1..MaxPages -> SimValues] :
             \E res \in MatchEmbeddings(embeddings, simOf, ask.pdf_id, ask.match_count) :
                ask' = [ask EXCEPT !.pc = AfterSearch(outcome), !.search = outcome,
                                   !.stages = Append(@, "search"), !.results = res]
        ELSE ask' = [ask EXCEPT !.pc = AfterSearch(outcome), !.search = outcome,
                                !.stages = Append(@, "search"),
                                !.response = IF AfterSearch(outcome) = "done"
                                             THEN Unhandled ELSE @]
    /\ UNCHANGED <<store, fsys, req, pc, pdf_id, loop, response, obs, conv, runs>>

\* answers and context are built from the results.
AskBuild ==
    /\ ask.pc = "build"
    /\ ask' = [ask EXCEPT !.pc = "gemini_primary",
                          !.answers = AnswersOf(ask.results),
                          !.context = Join([i \in 1..Len(ask.results) |->
                                               AnswersOf(ask.results)[i].answer])]
    /\ UNCHANGED <<store, fsys, req, pc, pdf_id, loop, response, obs, conv, runs>>

\* rag_answer = ask_gemini(question, context, gemini_model): generate_content
\* on the requested model.
AskGeminiPrimary ==
    /\ ask.pc = "gemini_primary"
    /\ \E outcome \in GeminiOutcomes :
        ask' = IF NeedsFallback(outcome, ask.gemini_model)
               THEN [ask EXCEPT !.pc = "gemini_fallback", !.primary = outcome,
                                !.stages = Append(@, "synthesize"),
                                !.calls = Append(@, ask.gemini_model)]
               ELSE [ask EXCEPT !.pc = "respond", !.primary = outcome,
                                !.stages = Append(@, "synthesize"),
                                !.calls = Append(@, ask.gemini_model),
                                !.rag_answer = PrimaryAnswer(outcome, ask.gemini_model)]
    /\ UNCHANGED <<store, fsys, req, pc, pdf_id, loop, response, obs, conv, runs>>

\* ask_gemini: generate_content on the fallback model.
AskGeminiFallback ==
    /\ ask.pc = "gemini_fallback"
    /\ \E outcome \in GeminiOutcomes :
        ask' = [ask EXCEPT !.pc = "respond", !.fallback = outcome,
                           !.calls = Append(@, FallbackModel),
                           !.rag_answer = FallbackAnswer(outcome)]
    /\ UNCHANGED <<store, fsys, req, pc, pdf_id, loop, response, obs, conv, runs>>

\* return {"rag_answer": rag_answer, "matches": answers}; an exception out of
\* ask_gemini would leave the handler.
AskRespond ==
    /\ ask.pc = "respond"
    /\ ask' = [ask EXCEPT !.pc = "done",
                          !.response = IF ask.rag_answer = Propagated THEN Unhandled
                                       ELSE [status |-> 200, error |-> "none",
                                             fields |-> {"rag_answer", "matches"}]]
    /\ UNCHANGED <<store, fsys, req, pc, pdf_id, loop, response, obs, conv, runs>>

\* The ingestion of RunningDoc, running at the same time, inserts the
\* embedding row of its next page.
ConcurrentInsert ==
    /\ ask.pc \notin {"idle", "done"}
    /\ LET n == Cardinality({ i \in 1..Len(embeddings) :
                                 embeddings[i].pdf_id = RunningDoc })
       IN  /\ n < MaxPages
           /\ embeddings' = Append(embeddings,
                                   [pdf_id |-> RunningDoc, page_number |-> n + 1,
                                    text |-> ExtractedText("text", n + 1)])
    /\ UNCHANGED <<pdfs, nextId, pdfBucket, imgBucket, txtBucket, fsys, req, pc, pdf_id,
                   loop, response, obs, ask, conv, runs>>

NextAsk ==
    \/ AskReceive
    \/ AskEncode
    \/ AskSearch
    \/ AskBuild
    \/ AskGeminiPrimary
    \/ AskGeminiFallback
    \/ AskRespond
    \/ ConcurrentInsert

SpecAsk == InitAsk /\ [][NextAsk]_vars

(* ------------------------------------------- two uploads at the same time *)

\* Two requests served at the same time (by two workers started in the same
\* directory) share the working directory, the tables and the buckets; their
\* steps may interleave at every call.  Each request keeps its locals in
\* runs[r].

\* Pages of a document uploaded while another upload runs.
MaxRunPages == 1

\* Values uuid.uuid4() returns; two calls never return the same value, and
\* which of the unused values a call returns makes no difference.
Uuids == {<<"u">>, <<"v">>}

\* File names of the two uploads: the same name twice, or a name that starts
\* like the prefix of a downloaded file.
TwoFilenames == { <<"a">> \o PdfSuffix, <<"2", "_", "a">> \o PdfSuffix }

PdfStepOutcomes == {"ok", "too_large", "failed", "update_failed"}

\* One pass of the text loop: everything succeeds, the text upload is given
\* up, model.encode raises, or the insert of the row fails.
TextStepOutcomes == {"ok", "upload_failed", "encode_raised", "insert_failed"}

\* The variables of the single request of Spec, which stay idle here.
single == <<req, pc, pdf_id, loop, response, obs, ask, conv>>

SetRun(r, rec) == [runs EXCEPT ![r] = rec]

\* POST /upload_pdf/ and the extension check.
TwoReceive(r) ==
    /\ runs[r].pc = "idle"
    /\ \E fname \in TwoFilenames, n \in 1..MaxRunPages :
        runs' = SetRun(r, [runs[r] EXCEPT
                              !.pc = IF AcceptsFilename(fname) THEN "save_temp" ELSE "done",
                              !.filename = fname, !.n = n])
    /\ UNCHANGED <<store, fsys, single>>

\* temp_filename = f"temp_{uuid.uuid4()}.pdf" and the write of the content.
TwoSaveTemp(r) ==
    /\ runs[r].pc = "save_temp"
    /\ LET used == { runs[q].temp_filename : q \in RunIds }
           u == CHOOSE x \in Uuids : TempFilenameOf(x) \notin used
       IN  /\ files' = files \cup {TempFilenameOf(u)}
           /\ runs' = SetRun(r, [runs[r] EXCEPT !.pc = "insert_metadata",
                                                !.temp_filename = TempFilenameOf(u)])
    /\ UNCHANGED <<store, dirs, single>>

\* Insert of the metadata row; the database assigns the id.  Then
\* storage_path = f"{pdf_id}/{file.filename}".
TwoInsertMetadata(r) ==
    /\ runs[r].pc = "insert_metadata"
    /\ \E ok \in BOOLEAN :
        IF ok
        THEN /\ pdfs' = pdfs \cup {[id |-> nextId, name |-> runs[r].filename,
                                    storage_path |-> NoPath]}
             /\ nextId' = nextId + 1
             /\ runs' = SetRun(r, [runs[r] EXCEPT
                                      !.pc = "upload_pdf", !.pdf_id = nextId,
                                      !.storage_path = StorageKey(nextId, runs[r].filename)])
             /\ UNCHANGED files
        ELSE /\ files' = files \ {runs[r].temp_filename}
             /\ runs' = SetRun(r, [runs[r] EXCEPT !.pc = "done"])
             /\ UNCHANGED <<pdfs, nextId>>
    /\ UNCHANGED <<pdfBucket, imgBucket, txtBucket, embeddings, dirs, single>>

\* Size check, upload of the PDF under storage_path, update of the row;
\* every branch removes the temporary file.
TwoUploadPdf(r) ==
    /\ runs[r].pc = "upload_pdf"
    /\ \E outcome \in PdfStepOutcomes :
        /\ pdfBucket' = IF outcome \in {"ok", "update_failed"}
                        THEN pdfBucket \cup {runs[r].storage_path}
                        ELSE pdfBucket
        /\ pdfs' = IF outcome = "ok"
                   THEN { IF row.id = runs[r].pdf_id
                          THEN [row EXCEPT !.storage_path = runs[r].storage_path]
                          ELSE row : row \in pdfs }
                   ELSE pdfs
        /\ runs' = SetRun(r, [runs[r] EXCEPT !.pc = IF outcome = "ok" THEN "download"
                                                    ELSE "done"])
    /\ files' = files \ {runs[r].temp_filename}
    /\ UNCHANGED <<nextId, imgBucket, txtBucket, embeddings, dirs, single>>

\* downloaded_pdf_path = f"{pdf_id}_{file.filename}" and the read-back of the
\* PDF into it; on failure the row of pdf_id is deleted (a failure of the
\* delete is logged).
TwoDownload(r) ==
    /\ runs[r].pc = "download"
    /\ LET path == DownloadedPdfPath(runs[r].pdf_id, runs[r].filename)
       IN  \E ok \in BOOLEAN, del \in BOOLEAN :
            IF ok
            THEN /\ del
                 /\ files' = files \cup {path}
                 /\ runs' = SetRun(r, [runs[r] EXCEPT !.pc = "rasterize",
                                                      !.downloaded_pdf_path = path])
                 /\ UNCHANGED pdfs
            ELSE /\ pdfs' = IF del THEN { row \in pdfs : row.id # runs[r].pdf_id } ELSE pdfs
                 /\ runs' = SetRun(r, [runs[r] EXCEPT !.pc = "done",
                                                      !.downloaded_pdf_path = path])
                 /\ UNCHANGED files
    /\ UNCHANGED <<nextId, pdfBucket, imgBucket, txtBucket, embeddings, dirs, single>>

\* output_dir = f"images/{pdf_id}", os.makedirs(output_dir) and
\* convert_pdf_to_images(downloaded_pdf_path, output_dir).
TwoRasterize(r) ==
    /\ runs[r].pc = "rasterize"
    /\ LET dir == OutputDir(runs[r].pdf_id)
       IN  /\ dirs' = dirs \cup {dir}
           /\ IF runs[r].downloaded_pdf_path \notin files
              THEN /\ runs' = SetRun(r, [runs[r] EXCEPT !.pc = "done", !.output_dir = dir])
                   /\ UNCHANGED files
              ELSE \E faultAt \in 0..(runs[r].n + 1) :
                   LET paths == ConvertResult(dir, runs[r].n, faultAt)
                   IN  /\ files' = files \cup ConvertWritten(dir, runs[r].n, faultAt)
                       /\ runs' = SetRun(r, [runs[r] EXCEPT
                                                !.pc = IF paths = <<>> THEN "cleanup" ELSE "img",
                                                !.output_dir = dir,
                                                !.image_paths = paths,
                                                !.idx = IF paths = <<>> THEN 0 ELSE 1])
    /\ UNCHANGED <<store, single>>

\* The retry loop of one page image: the image is stored under
\* f"{pdf_id}/{img_name}" or given up after max_retries attempts.
TwoUploadImage(r) ==
    /\ runs[r].pc = "img"
    /\ LET img == runs[r].image_paths[runs[r].idx]
           last == runs[r].idx = Len(runs[r].image_paths)
       IN  /\ \E ok \in BOOLEAN :
                imgBucket' = IF ok /\ img \in files
                             THEN imgBucket \cup {StorageKey(runs[r].pdf_id, Basename(img))}
                             ELSE imgBucket
           /\ runs' = SetRun(r, [runs[r] EXCEPT !.pc = IF last THEN "text" ELSE "img",
                                                !.idx = IF last THEN 1 ELSE @ + 1])
    /\ UNCHANGED <<pdfs, nextId, pdfBucket, txtBucket, embeddings, fsys, single>>

\* One pass of the text loop: recognition, the local text file in
\* output_dir, its upload under f"{pdf_id}/{txt_name}", the embedding and the
\* insert of its row.
TwoProcessText(r) ==
    /\ runs[r].pc = "text"
    /\ LET img == runs[r].image_paths[runs[r].idx]
           last == runs[r].idx = Len(runs[r].image_paths)
           txt_name == TxtName(img)
           txt == ExtractedText(IF img \in files THEN "text" ELSE "fault", runs[r].idx)
       IN  IF runs[r].output_dir \notin dirs
           THEN \* open(txt_local_path, "w") raises
                /\ runs' = SetRun(r, [runs[r] EXCEPT !.pc = "done"])
                /\ UNCHANGED <<files, txtBucket, embeddings>>
           ELSE /\ files' = files \cup {LocalPath(runs[r].output_dir, txt_name)}
                /\ \E outcome \in TextStepOutcomes :
                    /\ txtBucket' =
                          IF outcome # "upload_failed"
                          THEN txtBucket \cup {[key |-> StorageKey(runs[r].pdf_id, txt_name),
                                                content |-> txt]}
                          ELSE txtBucket
                    /\ embeddings' =
                          IF outcome \in {"ok", "upload_failed"}
                          THEN Append(embeddings,
                                      [pdf_id |-> runs[r].pdf_id,
                                       page_number |-> PageNumberOf(txt_name),
                                       text |-> txt])
                          ELSE embeddings
                    /\ runs' = SetRun(r, [runs[r] EXCEPT
                                             !.pc = IF outcome = "encode_raised" THEN "done"
                                                    ELSE IF last THEN "cleanup" ELSE "text",
                                             !.idx = IF outcome = "encode_raised" \/ last
                                                     THEN @ ELSE @ + 1])
    /\ UNCHANGED <<pdfs, nextId, pdfBucket, imgBucket, dirs, single>>

\* shutil.rmtree(output_dir) and os.remove(downloaded_pdf_path).
TwoCleanup(r) ==
    /\ runs[r].pc = "cleanup"
    /\ IF runs[r].output_dir \in dirs /\ runs[r].downloaded_pdf_path \in files
       THEN /\ files' = { f \in files : f.dir # runs[r].output_dir }
                            \ {runs[r].downloaded_pdf_path}
            /\ dirs' = dirs \ {runs[r].output_dir}
       ELSE UNCHANGED <<files, dirs>>
    /\ runs' = SetRun(r, [runs[r] EXCEPT !.pc = "done"])
    /\ UNCHANGED <<store, single>>

NextTwo ==
    \E r \in RunIds :
        \/ TwoReceive(r)
        \/ TwoSaveTemp(r)
        \/ TwoInsertMetadata(r)
        \/ TwoUploadPdf(r)
        \/ TwoDownload(r)
        \/ TwoRasterize(r)
        \/ TwoUploadImage(r)
        \/ TwoProcessText(r)
        \/ TwoCleanup(r)

\* Both requests arrive after MaxPriorDocs complete ingestions.
InitTwo ==
    /\ StoresInit(MaxPriorDocs)
    /\ files = {}
    /\ dirs = {}
    /\ UploadIdle
    /\ ask = NoAsk
    /\ conv = NoConv
    /\ runs = NoRuns

SpecTwo == InitTwo /\ [][NextTwo]_vars

\* Every external call returns or raises, and the handler then takes its next
\* step: a request that can go on does go on.
FairSpec == Spec /\ WF_vars(Next)

TypeOK ==
    /\ pc \in {"idle", "check_extension", "save_temp", "insert_metadata", "check_size",
               "upload_pdf", "update_storage_path", "download", "compensate", "rasterize",
               "img_attempt", "img_next", "ocr", "txt_attempt", "embed",
               "insert_embedding", "cleanup", "done"}
    /\ attempt \in 0..(max_retries - 1)
    /\ idx \in 0..MaxPages
    /\ response.status \in {0, 200, 400, 413, 500}

(* ---------------------------------------------------------------- claims *)

Done == pc = "done"

RowExists(id) == \E r \in pdfs : r.id = id

Is5xx(r) == r.status \in 500..599

Is4xx(r) == r.status \in 400..499

OpsCalled == { c.op : c \in called }

PageOps == {"img_upload", "ocr", "txt_upload", "encode", "embeddings_insert"}

StorageUploadOps == {"pdf_upload", "img_upload", "txt_upload"}

PdfUploadFailed == \E o \in {"error", "api413", "api", "exc"} : Result("pdf_upload", o) \in results

\* C1: whenever the storage upload of the original PDF fails (error result
\* or exception), the request ends with a 5xx response and the metadata row
\* inserted for the document id no longer exists.
C1_UploadFailureDeletesRow ==
    (Done /\ PdfUploadFailed) => (Is5xx(response) /\ ~RowExists(pdf_id))

\* C2: rasterization is always preceded by a read-back download; when the
\* read-back fails, a delete of the metadata row is attempted, the request
\* ends with a 5xx response, and no rasterization, page-artifact upload or
\* embedding insert is ever made for the document.
C2_ReadBackGuardsRasterize ==
    /\ pc = "rasterize" => Result("pdf_download", "ok") \in results
    /\ Call("rasterize", 0) \in called => Result("pdf_download", "ok") \in results
    /\ Result("pdf_download", "exc") \in results =>
        /\ pc \in {"compensate", "done"}
        /\ Done => (Call("pdfs_delete", 0) \in called /\ Is5xx(response))
        /\ OpsCalled \cap ({"rasterize"} \cup PageOps) = {}
        /\ ~ \E e \in 1..Len(embeddings) : embeddings[e].pdf_id = pdf_id

C2_Witness ==
    /\ Done
    /\ Result("pdf_upload", "ok") \in results
    /\ Result("pdf_download", "exc") \in results
    /\ Call("pdfs_delete", 0) \in called
    /\ response.status = 500

\* C3: when rasterization of the stored PDF fails, the request ends with a
\* 5xx response, the metadata row is removed and no page is processed.
C3_RasterizeFailureAborts ==
    (Done /\ Result("rasterize", "fault") \in results) =>
        /\ Is5xx(response)
        /\ ~RowExists(pdf_id)
        /\ OpsCalled \cap PageOps = {}

\* The size of the upload exceeds 50 MB (52428800 bytes).
Oversized == file_size > supabase_free_tier_limit_mb * 1024 * 1024

\* The file name ends in ".pdf" in some letter case.
HasPdfExtension(fname) ==
    /\ Len(fname) >= 4
    /\ fname[Len(fname) - 3] = "."
    /\ fname[Len(fname) - 2] \in {"p", "P"}
    /\ fname[Len(fname) - 1] \in {"d", "D"}
    /\ fname[Len(fname)] \in {"f", "F"}

TooLargeBody ==
    /\ response.status = 413
    /\ {"file_size_mb", "supabase_free_tier_limit", "message"} \subseteq response.fields

C5_ExtensionCheck ==
    pc \notin {"idle", "check_extension"} =>
        /\ ~HasPdfExtension(filename) =>
            /\ Done
            /\ Is4xx(response)
            /\ files = {} /\ dirs = {}
            /\ called = {} /\ results = {}
            /\ ~ \E r \in pdfs : r.name = filename
            /\ ~ \E k \in pdfBucket \cup imgBucket : k.name = filename
        /\ HasPdfExtension(filename) =>
            ~(Done /\ response = HttpError(400, "Only PDF files are allowed.", {}))

C5_Witness ==
    /\ Done
    /\ ~HasPdfExtension(filename)
    /\ EndsWith(filename, <<"p", "d", "f">>)
    /\ response.status = 400

\* The pages the rasterizer returned, by 1-based position.
Pages == 1..Len(image_paths)

PageAttempted(p) == \A op \in PageOps : Call(op, p) \in called

InsertFailed(p) ==
    /\ Call("embeddings_insert", p) \in called
    /\ ~ \E e \in 1..Len(embeddings) :
            embeddings[e].pdf_id = pdf_id /\ embeddings[e].page_number = p

\* C6: once per-page processing has started, no failure of a page's
\* sub-step (image upload, text recognition, text upload, embedding the
\* text, embedding insert) aborts the batch: the run ends with the success
\* response and every page has been attempted in every sub-step.
C6_PageFailureNeverAborts ==
    (Done /\ image_paths # <<>>) =>
        (response.status = 200 /\ \A p \in Pages : PageAttempted(p))

\* C7: when the insert of a page's embedding row fails, the inserts of all
\* later pages are still attempted and the upload returns its success
\* response.
C7_InsertFaultSkipped ==
    \A p \in Pages :
        (Done /\ InsertFailed(p)) =>
            /\ response.status = 200
            /\ \A q \in Pages : q > p => Call("embeddings_insert", q) \in called

InRetryLoop == pc \in {"img_attempt", "txt_attempt"}

AfterRetryLoop == pc \in {"img_next", "embed", "insert_embedding"}

\* C8: every page image upload and page text upload is attempted at least
\* once and at most 3 times, never again after an attempt that succeeded,
\* and after 3 failed attempts the artifact is skipped and the run goes on.
C8_AttemptsBounded ==
    /\ nAttempts \in 0..3
    /\ InRetryLoop => (nAttempts < 3 /\ ~curOk)
    /\ AfterRetryLoop =>
        /\ nAttempts \in 1..3
        /\ curOk \/ nAttempts = 3
        /\ response = NoResponse
    /\ (pc = "cleanup" /\ image_paths # <<>>) =>
        \A p \in Pages : Call("img_upload", p) \in called /\ Call("txt_upload", p) \in called

C8_Witness ==
    /\ pc = "embed"
    /\ idx = 1
    /\ Len(image_paths) = 2
    /\ nAttempts = 3
    /\ ~curOk
    /\ Len(uploaded_images) = 1

\* C9: every retry of a page image or page text upload is preceded by a
\* backoff wait, 1 second before the second attempt and 2 seconds before
\* the third, whether the previous attempt returned an error result or
\* raised.
C9_BackoffBeforeEveryRetry ==
    InRetryLoop =>
        /\ nAttempts = 1 => slept = 1
        /\ nAttempts = 2 => slept = 2

ImageKeys == [p \in Pages |-> StorageKey(pdf_id, Basename(image_paths[p]))]

TextKeys == [p \in Pages |-> StorageKey(pdf_id, TxtName(image_paths[p]))]

ReturnedOk(k) == k \in returnedOk

\* C10: in the success response uploaded_images lists exactly the image
\* keys for which an upload call returned without error, each once, in page
\* order, and uploaded_texts likewise the text keys.
C10_ListsMatchUploads ==
    (Done /\ response.status = 200) =>
        /\ uploaded_images = SelectSeq(ImageKeys, ReturnedOk)
        /\ uploaded_texts = SelectSeq(TextKeys, ReturnedOk)

C10_Witness ==
    /\ Done
    /\ response.status = 200
    /\ Len(image_paths) = 2
    /\ uploaded_images = <<ImageKeys[2]>>
    /\ uploaded_texts = <<TextKeys[1]>>

\* C11: on every exit path of a run (success, error response or uncaught
\* fault) all local files the run created have been deleted when it ends.
C11_LocalFilesDeleted ==
    Done => (files = {} /\ dirs = {})

\* The page a file name or storage key denotes: the number its digits spell.
KeyPage(name) == DigitsValue(SelectSeq(name, IsDigitChar))

RowsOf(id) == { e \in 1..Len(embeddings) : embeddings[e].pdf_id = id }

\* What one step of a run adds to the stores, and when the recognized
\* string and the page index change.
PageKeyStableStep ==
    /\ image_paths' # image_paths =>
           \A p \in 1..Len(image_paths') : KeyPage(Basename(image_paths'[p])) = p
    /\ \A k \in imgBucket' \ imgBucket :
           /\ k.pdf_id = pdf_id
           /\ KeyPage(k.name) = idx
    /\ text' # text =>
           /\ pc = "ocr"
           /\ text'.kind = "extracted" => text'.page = idx
           /\ \A f \in files' \ files : f.dir = OutputDir(pdf_id) /\ KeyPage(f.name) = idx
    /\ pc \in {"txt_attempt", "embed", "insert_embedding"} => text' = text
    /\ pc \in {"txt_attempt", "embed"} => idx' = idx
    /\ \A o \in txtBucket' \ txtBucket :
           /\ o.key.pdf_id = pdf_id
           /\ KeyPage(o.key.name) = idx
           /\ o.content = text
    /\ embeddings' # embeddings =>
           /\ Len(embeddings') = Len(embeddings) + 1
           /\ SubSeq(embeddings', 1, Len(embeddings)) = embeddings
           /\ embeddings'[Len(embeddings')] =
                  [pdf_id |-> pdf_id, page_number |-> idx, text |-> text]

\* C12: for every page at 1-based rasterization index p, the image file and
\* key, the text file and key and the page_number of the embedding row all
\* denote p, and the text of the row and of the text artifact is the string
\* recognized from page p's image.
C12_PageKeyStable == [][PageKeyStableStep]_vars

C12_Witness ==
    /\ Done
    /\ response.status = 200
    /\ Len(image_paths) = 2
    /\ \E e \in RowsOf(pdf_id) :
           /\ embeddings[e].page_number = 1
           /\ embeddings[e].text.kind = "Error processing image"
    /\ \E e \in RowsOf(pdf_id) :
           /\ embeddings[e].page_number = 2
           /\ embeddings[e].text.kind = "extracted"
           /\ \E o \in txtBucket : o.key = TextKeys[2] /\ o.content = embeddings[e].text
    /\ ImageKeys[2] \in imgBucket

\* C13: the embeddings table holds at most one row per (document id, page
\* number), also when the uploaded PDF was ingested before: the run gets a
\* document id no earlier row carries.
C13_OneRowPerKey ==
    /\ \A i, j \in 1..Len(embeddings) :
           (/\ embeddings[i].pdf_id = embeddings[j].pdf_id
            /\ embeddings[i].page_number = embeddings[j].page_number) => i = j
    /\ \A r1, r2 \in pdfs : r1.id = r2.id => r1 = r2
    /\ \A r \in pdfs : r.id < nextId

C13_Witness ==
    /\ Done
    /\ response.status = 200
    /\ \E r \in pdfs : r.id # pdf_id /\ r.name = filename
    /\ Cardinality(RowsOf(pdf_id)) = 2
    /\ \E e \in 1..Len(embeddings) :
           embeddings[e].pdf_id # pdf_id /\ embeddings[e].page_number = 1

\* C18: extract_text_from_image never raises: whatever the outcome of the
\* OCR call, it returns a string, which is the extracted text of the page,
\* the sentinel "No text found in image" or an error description.
C18_RecognizeAlwaysString ==
    /\ text # Raised
    /\ (\E c \in called : c.op = "ocr") =>
           text.kind \in {"extracted", "No text found in image", "Error processing image"}
    /\ pc \in {"txt_attempt", "embed", "insert_embedding"} =>
           /\ Call("ocr", idx) \in called
           /\ text.kind = "extracted" => text.page = idx

C18_Witness ==
    /\ pc = "txt_attempt"
    /\ idx = 2
    /\ Call("ocr", 1) \in called
    /\ text.kind = "Error processing image"

\* The two ways a run ends: the success response, or an error response.
Completed == Done /\ response.status = 200

Failed == Done /\ response.status >= 400

\* C20: every run eventually ends, in exactly one of Completed or Failed: no
\* retry loop goes on forever and no run stays in an intermediate state (the
\* request of a behaviour is received by its first step).
C20_RunEnds ==
    <>((Completed \/ Failed) /\ ~(Completed /\ Failed))

\* A run that used every attempt of both retry loops and ended.
C20_Witness ==
    /\ Completed
    /\ Len(image_paths) = 2
    /\ uploaded_images = <<>>
    /\ uploaded_texts = <<>>
    /\ nAttempts = max_retries

\* The digits of a file name, as written.
DigitsOf(name) == SelectSeq(name, IsDigitChar)

\* C19: a PDF of N pages that renders without fault gives exactly N image
\* paths, the i-th numbered i with three zero-padded digits; a rendering
\* fault at any page (or at opening) gives the empty sequence, never a
\* partial one; a source path that does not exist gives a not-found error
\* and no return value.
C19_ConvertPages ==
    /\ conv.pc = "returned" =>
          /\ conv.pdf_path \in files
          /\ conv.ret = ConvertResult(conv.output_folder, conv.n, conv.faultAt)
          /\ files \ {conv.pdf_path}
                 = ConvertWritten(conv.output_folder, conv.n, conv.faultAt)
          /\ IF conv.faultAt <= conv.n
             THEN conv.ret = <<>>
             ELSE /\ Len(conv.ret) = conv.n
                  /\ \A i \in 1..conv.n :
                         /\ conv.ret[i].dir = conv.output_folder
                         /\ conv.ret[i] \in files
                         /\ KeyPage(Basename(conv.ret[i])) = i
                         /\ Len(DigitsOf(Basename(conv.ret[i]))) = 3
    /\ conv.pc = "raised" =>
          /\ conv.pdf_path \notin files
          /\ conv.raised = "FileNotFoundError"
          /\ conv.ret = <<>> /\ files = {} /\ dirs = {}
    /\ (conv.pc \in {"open", "page", "returned"}) => conv.pdf_path \in files

\* A fault at the last page, after the earlier pages were written.
C19_Witness ==
    /\ conv.pc = "returned"
    /\ conv.n = MaxPages
    /\ conv.faultAt = MaxPages
    /\ Cardinality(files) = MaxPages
    /\ conv.ret = <<>>

\* ask_gemini has returned (or an exception has left it).
GeminiReturned == ask.pc \in {"respond", "done"} /\ ask.primary # "none"

FallbackInvoked == ask.pc # "idle" /\ ask.fallback # "none"

Contains(answer, tok) == \E i \in 1..Len(answer) : answer[i] = tok

EmbedsErrorDetail(answer) ==
    \E i \in 1..Len(answer) :
        /\ answer[i].kind = "Sorry, an error occurred with the AI service: "
        /\ answer[i].detail = "error"

\* What C14 says beside the condition of the fallback: one fallback call at
\* most, the notice after a successful fallback, no fallback and the error
\* detail after another failure, two generative calls at most.
FallbackContract ==
    /\ FallbackInvoked =>
          /\ Len(ask.calls) = 2
          /\ ask.calls[2] = FallbackModel
    /\ ~FallbackInvoked => Len(ask.calls) = 1
    /\ ask.calls[1] = ask.gemini_model
    /\ ask.fallback = "ok" => Contains(ask.rag_answer, FallbackNotice)
    /\ ask.primary = "error" => ~FallbackInvoked /\ EmbedsErrorDetail(ask.rag_answer)
    /\ Len(ask.calls) <= 2

\* C14 as stated: the fallback model is invoked if and only if the call of
\* the requested model raised a quota error, and then exactly once; the
\* notice follows a successful fallback; any other failure gives no fallback
\* and a message with the error detail; at most two generative calls.
C14_FallbackIffQuota ==
    GeminiReturned =>
        /\ FallbackInvoked <=> ask.primary = "quota"
        /\ FallbackContract

\* C14 as amended: the fallback model is invoked if and only if the call of
\* the requested model raised a quota error and the requested model is not
\* the fallback model itself (then the rate-limit apology is returned after
\* the one call); the rest as stated.
C14_FallbackIffQuotaOfOtherModel ==
    GeminiReturned =>
        /\ FallbackInvoked <=> (ask.primary = "quota" /\ ask.gemini_model # FallbackModel)
        /\ FallbackContract
        /\ (ask.primary = "quota" /\ ask.gemini_model = FallbackModel) =>
               Contains(ask.rag_answer, RateLimitApology)

C14_Witness ==
    /\ ask.pc = "done"
    /\ ask.gemini_model = DefaultModel
    /\ ask.primary = "quota"
    /\ ask.fallback = "ok"
    /\ ask.calls = <<DefaultModel, FallbackModel>>
    /\ Contains(ask.rag_answer, FallbackNotice)

\* C15: ask_gemini always returns a string and never lets an exception
\* reach its caller, whatever the outcomes of the two calls; when the
\* requested model raised a quota error and the fallback failed too, the
\* string is the rate-limit apology.
C15_AlwaysReturnsString ==
    GeminiReturned =>
        /\ ask.rag_answer # NoAnswer
        /\ ask.rag_answer # Propagated
        /\ \A i \in 1..Len(ask.rag_answer) : ask.rag_answer[i].kind # "raised"
        /\ ask.pc = "done" => ask.response.status = 200
        /\ (ask.primary = "quota" /\ ask.fallback \in {"quota", "error"}) =>
               ask.rag_answer[1] = RateLimitApology

C15_Witness ==
    /\ ask.pc = "done"
    /\ ask.primary = "quota"
    /\ ask.fallback = "error"
    /\ ask.rag_answer[1] = RateLimitApology
    /\ ask.response.status = 200

\* C16: a failed similarity search (connection failure, error status, no
\* answer within the 60 seconds) is not swallowed: the request fails, no
\* answer is returned and the synthesizer is never invoked.
C16_SearchFailureFailsQuery ==
    (ask.pc # "idle" /\ ask.search \notin {"none", "ok"}) =>
        /\ ask.pc = "done"
        /\ ask.response = Unhandled
        /\ ask.rag_answer = NoAnswer
        /\ ask.answers = <<>>
        /\ ask.calls = <<>>

C16_Witness ==
    /\ ask.pc = "done"
    /\ ask.search = "timeout"
    /\ ask.response.status = 500
    /\ \E i \in 1..Len(embeddings) : embeddings[i].pdf_id = ask.pdf_id

\* The matches of the request have been built from the search results.
MatchesBuilt == ask.pc \in {"gemini_primary", "gemini_fallback", "respond", "done"}
                /\ ask.search = "ok"

\* C17: the matches of a request for document d with match count k never
\* include a row of another document, are at most k, and come by
\* non-increasing similarity, whatever other documents were ingested before
\* or are being ingested at the same time.
C17_MatchesScopedAndRanked ==
    MatchesBuilt =>
        /\ Len(ask.answers) <= ask.match_count
        /\ \A i \in 1..Len(ask.answers) :
               /\ ask.answers[i].pdf_id = ask.pdf_id
               /\ \E e \in 1..Len(embeddings) :
                      /\ embeddings[e].pdf_id = ask.answers[i].pdf_id
                      /\ embeddings[e].page_number = ask.answers[i].page_number
                      /\ embeddings[e].text = ask.answers[i].answer
        /\ \A i, j \in 1..Len(ask.answers) :
               i < j => ask.answers[i].similarity >= ask.answers[j].similarity

C17_Witness ==
    /\ ask.pc = "done"
    /\ ask.response.status = 200
    /\ Len(ask.answers) = 2
    /\ ask.answers[1].similarity > ask.answers[2].similarity
    /\ ask.answers[1].page_number > ask.answers[2].page_number
    /\ \E e \in 1..Len(embeddings) : embeddings[e].pdf_id = RunningDoc
    /\ \E e \in 1..Len(embeddings) : embeddings[e].pdf_id \notin {RunningDoc, ask.pdf_id}

\* The stages of one /ask/ request, in the order of the handler.
StageOrder == <<"embed", "search", "synthesize">>

IsPrefix(s, t) == Len(s) <= Len(t) /\ \A i \in 1..Len(s) : s[i] = t[i]

Separator == [kind |-> "\n\n", page |-> 0]

\* C21: a request performs the stages embed question, similarity search,
\* synthesize in this order and none of them twice, and all three when it
\* answers; once the synthesizer has been called, the context it was given is
\* the texts of the search results in their order, joined by blank lines, and
\* the matches are the search results, element by element, none added or
\* dropped.
C21_StagesInOrder ==
    ask.pc # "idle" =>
        /\ IsPrefix(ask.stages, StageOrder)
        /\ ask.response.status = 200 => ask.stages = StageOrder
        /\ ask.calls # <<>> =>
               /\ ask.stages = StageOrder
               /\ Len(ask.context) = (IF ask.results = <<>> THEN 0
                                      ELSE 2 * Len(ask.results) - 1)
               /\ \A i \in 1..Len(ask.results) :
                      ask.context[2 * i - 1] = ask.results[i].text
               /\ \A i \in 1..(Len(ask.results) - 1) : ask.context[2 * i] = Separator
               /\ Len(ask.answers) = Len(ask.results)
               /\ \A i \in 1..Len(ask.results) :
                      /\ ask.answers[i].answer = ask.results[i].text
                      /\ ask.answers[i].page_number = ask.results[i].page_number
                      /\ ask.answers[i].pdf_id = ask.results[i].pdf_id
                      /\ ask.answers[i].similarity = ask.results[i].similarity

\* A request answered from two matches of different pages, after the fallback
\* model was called too.
C21_Witness ==
    /\ ask.pc = "done"
    /\ ask.response.status = 200
    /\ ask.stages = StageOrder
    /\ Len(ask.calls) = 2
    /\ Len(ask.results) = 2
    /\ ask.results[1].text # ask.results[2].text
    /\ Len(ask.context) = 3

\* C22: after an upload request that ends with a 413 response, no metadata
\* row of that upload exists in the document table.
C22_TooLargeLeavesNoRow ==
    (Done /\ response.status = 413) => ~RowExists(pdf_id)

\* C23: when the storage upload of the original PDF returns an error result,
\* the temporary file is deleted and the request ends with the 500 'Storage
\* error' response raised for that result.
C23_ErrorResultAnswersStorageError ==
    (Done /\ Result("pdf_upload", "error") \in results) =>
        /\ TempFilename \notin files
        /\ response = HttpError(500, "Storage error", {})

\* The metadata rows of the document of the running request.
OwnRows(table) == { r \in table : r.id = pdf_id /\ pdf_id # 0 }

PerPagePcs == {"img_attempt", "img_next", "ocr", "txt_attempt", "embed", "insert_embedding",
               "cleanup"}

\* The row of the running request carries a storage path only when the PDF
\* was stored under that path.
PathOnlyIfStored ==
    \A r \in OwnRows(pdfs) :
        r.storage_path # NoPath =>
            /\ r.storage_path = StorageKey(pdf_id, filename)
            /\ r.storage_path \in pdfBucket
            /\ Result("pdf_upload", "ok") \in results

RowWriteStep ==
    /\ PathOnlyIfStored'
    /\ (OwnRows(pdfs)' # OwnRows(pdfs) /\ OwnRows(pdfs)' # {}) =>
           \/ /\ pc = "insert_metadata"
              /\ Call("pdfs_insert", 0) \notin called
              /\ \A r \in OwnRows(pdfs)' : r.storage_path = NoPath
           \/ /\ pc = "update_storage_path"
              /\ Call("pdfs_update", 0) \notin called
    /\ pc \in PerPagePcs \cup {"rasterize"} => pdfs' = pdfs

\* C24: at every point of a run the metadata row of its document has
\* storage_path set only if the PDF was stored under that path; the row is
\* written by the insert and by one storage_path update only, each made once,
\* and no step of the per-page processing writes the table.
C24_PathOnlyAfterUpload == [][RowWriteStep]_vars

\* A run in its per-page processing whose row carries the path of the stored
\* PDF.
C24_Witness ==
    /\ pc = "insert_embedding"
    /\ OwnRows(pdfs) # {}
    /\ \A r \in OwnRows(pdfs) : r.storage_path = StorageKey(pdf_id, filename)
    /\ StorageKey(pdf_id, filename) \in pdfBucket
    /\ Call("pdfs_insert", 0) \in called /\ Call("pdfs_update", 0) \in called

\* C25: in a run that reached per-page processing, text recognition and the
\* insert of the embedding row have each been attempted for every rasterized
\* page when the run ends, whether or not the page's image or text upload
\* succeeded.
C25_EveryPageRecognizedAndInserted ==
    (Done /\ image_paths # <<>>) =>
        \A p \in Pages : Call("ocr", p) \in called /\ Call("embeddings_insert", p) \in called

\* The local working paths of request r: its temporary file and its
\* downloaded PDF; its image directory holds its page images and text files.
WorkingPaths(r) == {runs[r].temp_filename, runs[r].downloaded_pdf_path} \ {NoFile}

WorkingDirs(r) == {runs[r].output_dir} \ {NoDir}

\* The requests are for distinct documents.
DistinctDocuments ==
    \A r, q \in RunIds : (r # q /\ runs[r].pdf_id # 0) => runs[r].pdf_id # runs[q].pdf_id

\* No path, directory or key prefix of one request is one of the other.
NoSharedPath ==
    \A r, q \in RunIds :
        r # q =>
            /\ WorkingPaths(r) \cap WorkingPaths(q) = {}
            /\ WorkingDirs(r) \cap WorkingDirs(q) = {}
            /\ \A f \in WorkingPaths(r) : f.dir \notin WorkingDirs(q)
            /\ runs[r].storage_path # NoPath => runs[r].storage_path # runs[q].storage_path
            /\ runs[r].pdf_id # 0 => runs[r].storage_path.pdf_id # runs[q].pdf_id

NewKeys ==
    (pdfBucket' \ pdfBucket) \cup (imgBucket' \ imgBucket)
        \cup { t.key : t \in txtBucket' \ txtBucket }

NewRows == { embeddings'[i] : i \in (Len(embeddings) + 1)..Len(embeddings') }

\* A step of the other request leaves the files and the directory of
\* request r in place and writes nothing under the document id of r.
OtherRunKeepsOff(r) ==
    runs'[r] = runs[r] =>
        LET mine == WorkingPaths(r)
            dir == WorkingDirs(r)
        IN  /\ \A f \in files \ files' : f \notin mine /\ f.dir \notin dir
            /\ \A f \in files' \ files : f \notin mine /\ f.dir \notin dir
            /\ dir \cap dirs \subseteq dirs'
            /\ runs[r].pdf_id # 0 =>
                   /\ \A k \in NewKeys : k.pdf_id # runs[r].pdf_id
                   /\ \A e \in NewRows : e.pdf_id # runs[r].pdf_id
                   /\ \A row \in pdfs : row.id = runs[r].pdf_id => row \in pdfs'

\* C26: two upload requests for distinct documents, interleaved in any way,
\* never share the temporary file, the downloaded PDF, the image directory or
\* a storage key; no step of one removes a file or the directory of the other,
\* and none writes a file, a storage key, an embedding row or the metadata row
\* under the document id of the other.
C26_RunsKeepApart ==
    [][DistinctDocuments' => (NoSharedPath' /\ \A r \in RunIds : OtherRunKeepsOff(r))]_vars

\* Two uploads of the same file name: the first has finished and removed its
\* image directory and downloaded PDF while the second is in its text loop
\* with its page image and downloaded PDF in place, and both have inserted
\* embedding rows.
C26_Witness ==
    \E r, q \in RunIds :
        /\ r # q
        /\ runs[r].filename = runs[q].filename
        /\ runs[r].pc = "done" /\ runs[r].image_paths # <<>>
        /\ runs[r].output_dir \notin dirs
        /\ runs[r].downloaded_pdf_path \notin files
        /\ runs[q].pc = "text"
        /\ runs[q].image_paths[1] \in files
        /\ runs[q].downloaded_pdf_path \in files
        /\ \E e \in 1..Len(embeddings) : embeddings[e].pdf_id = runs[r].pdf_id
        /\ runs[q].pdf_id > runs[r].pdf_id

====
